---- MODULE Spec2Model ----
(***************************************************************************)
(* State-machine model of src/index.tsx: the chat front-end's startup      *)
(* (main), the form submit handler with its function-call dispatch loop,   *)
(* the four mock fixtures and the confirmation modal's three listeners.    *)
(*                                                                         *)
(* One action is one run of a handler between two suspension points: the   *)
(* browser's event loop runs each listener to completion, and the submit   *)
(* handler is suspended only at its two awaits (lines 263 and 279).        *)
(***************************************************************************)
EXTENDS Integers, Sequences, FiniteSets, TLC

VARIABLES
    apiKey,          \* process.env.API_KEY is set (line 202)
    pc,              \* "boot" before main() ran, "idle", or "awaiting" (submit handler suspended at an await)
    listeners,       \* the click and submit listeners are registered (lines 217-250)
    chat,            \* the chat session was created (line 242)
    actionToConfirm, \* line 28
    modalHidden,     \* modal.classList contains 'hidden'
    overlayHidden,   \* modalOverlay.classList contains 'hidden'
    modalBody,       \* modalBody.innerHTML (line 88)
    promptValue,     \* promptInput.value
    inputDisabled,   \* promptInput.disabled
    submitDisabled,  \* submitButton.disabled
    spinner,         \* loadingIndicator.element # null
    chatHistory,     \* the children appended to #chat-history, in order
    sent,            \* the messages handed to chat.sendMessage, in order
    response,        \* the handler's local `response` (line 263), NoResponse outside a cycle
    invoked,         \* the fixture invocations made while handling the last response (line 271)
    clicks           \* click events so far

vars == <<apiKey, pc, listeners, chat, actionToConfirm, modalHidden, overlayHidden,
          modalBody, promptValue, inputDisabled, submitDisabled, spinner, chatHistory,
          sent, response, invoked, clicks>>

\* Bounds of the model.
MaxSends == 3
MaxClicks == 2

None == [type |-> "none"]
\* The handler's `response` before the first send of a cycle returned.
NoResponse == [functionCalls |-> <<>>, text |-> ""]
Undefined == "undefined"

Max(a, b) == IF a >= b THEN a ELSE b
Min(a, b) == IF a <= b THEN a ELSE b

-----------------------------------------------------------------------------
\* Strings the handlers work on.

RECURSIVE Str(_)
\* A sequence of characters as a string.
Str(cs) == IF cs = <<>> THEN "" ELSE Head(cs) \o Str(Tail(cs))

RECURSIVE TrimStart(_)
TrimStart(cs) == IF cs # <<>> /\ Head(cs) = " " THEN TrimStart(Tail(cs)) ELSE cs

RECURSIVE TrimEnd(_)
TrimEnd(cs) ==
    IF cs # <<>> /\ cs[Len(cs)] = " " THEN TrimEnd(SubSeq(cs, 1, Len(cs) - 1)) ELSE cs

\* String.prototype.trim (line 252), on a sequence of characters.
Trim(cs) == TrimEnd(TrimStart(cs))

RECURSIVE Join(_, _)
\* Array.prototype.join (line 75).
Join(lines, sep) ==
    IF lines = <<>> THEN ""
    ELSE IF Len(lines) = 1 THEN lines[1]
    ELSE lines[1] \o sep \o Join(Tail(lines), sep)

\* Array.prototype.slice(start, end) (line 72).
Slice(s, start, end) ==
    LET len == Len(s)
        k == IF start < 0 THEN Max(len + start, 0) ELSE Min(start, len)
        final == IF end < 0 THEN Max(len + end, 0) ELSE Min(end, len)
        count == Max(final - k, 0)
    IN  [i \in 1..count |-> s[k + i]]

-----------------------------------------------------------------------------
\* appendMessage (lines 158-175): one child appended to the chat history. A model
\* message whose content starts with '{' or '[' is pretty-printed as JSON when it
\* parses, and shown verbatim otherwise.

JsonTexts == {"[1]"}
\* JSON.stringify(JSON.parse(content), null, 2) for the JSON contents of the model.
FormatJson(content) == IF content = "[1]" THEN "[\n  1\n]" ELSE content

Rendered(content, cssClass) ==
    IF cssClass = "model-message" /\ content \in JsonTexts
    THEN [cls |-> cssClass, fmt |-> "code", content |-> content, html |-> FormatJson(content)]
    ELSE [cls |-> cssClass, fmt |-> "pre", content |-> content, html |-> content]

appendMessage(history, content, cssClass) == Append(history, Rendered(content, cssClass))

-----------------------------------------------------------------------------
\* The mock fixtures (lines 31-93).

KnownNode == "ana-agi-node-1"

getNodeStatus(nodeId) ==
    IF nodeId = KnownNode
    THEN "Status for node " \o nodeId \o ":\n- Status: Active\n- Version: 2.0.0 G-Sync\n- CPU Load: 12%"
    ELSE "Error fetching status for " \o nodeId \o ": Node not found."

\* The fixed list of lines 45-71 (the timestamps are never formatted).
logs ==
    << [level |-> "INFO",  message |-> "System compliance check passed."],
       [level |-> "ERROR", message |-> "Connection to database failed."],
       [level |-> "INFO",  message |-> "Deployment of package 1.9.9 started on ana-agi-node-1."],
       [level |-> "WARN",  message |-> "High CPU usage detected on node-2."],
       [level |-> "INFO",  message |-> "User \"admin\" logged in."] >>

FormatLog(log) == "- [" \o log.level \o "] " \o log.message

\* logs.slice(0, limit) (line 72).
LogSlice(limit) == Slice(logs, 0, limit)

\* Lines 72-74: the entries returned, each formatted.
LogLines(limit) == [i \in 1..Len(LogSlice(limit)) |-> FormatLog(LogSlice(limit)[i])]

getLatestVaultLogs(limit) ==
    "Last " \o ToString(limit) \o " logs from the Vault:\n" \o Join(LogLines(limit), "\n")

getSystemComplianceScore == "Current system compliance score is: 98.5%"

\* The record startDeployment stages (lines 83-87).
Staged(packageId, nodeId) == [type |-> "DEPLOYMENT", packageId |-> packageId, nodeId |-> nodeId]

ModalHtml(packageId, nodeId) ==
    "<p>Are you sure you want to deploy package <strong>" \o packageId
    \o "</strong> to node <strong>" \o nodeId
    \o "</strong>?</p><p>This action will change the state of the system.</p>"

\* startDeployment (lines 82-92) on the modal's state m; its return value is
\* StartDeploymentResult.
startDeployment(m, packageId, nodeId) ==
    [m EXCEPT !.action = Staged(packageId, nodeId),
              !.body = ModalHtml(packageId, nodeId),
              !.modalHidden = FALSE,
              !.overlayHidden = FALSE]

StartDeploymentResult == "Please confirm the deployment in the dialog box."

\* The keys of mockApi (lines 32, 44, 78, 82), which line 270 tests with `in`.
MockApiNames == {"getNodeStatus", "getLatestVaultLogs", "getSystemComplianceScore", "startDeployment"}

-----------------------------------------------------------------------------
\* Function calls as the model service returns them: a name and an argument
\* record, the record being a sequence of <<key, value>> pairs in key order. Every
\* call carries a record, empty for a function without parameters.

Call(name, args) == [name |-> name, args |-> args]

\* Object.values(args) (line 271).
ObjectValues(args) == [i \in 1..Len(args) |-> args[i][2]]

\* The i-th positional argument of a call spread from vals; undefined when absent.
Arg(vals, i) == IF i <= Len(vals) THEN vals[i] ELSE Undefined

\* The value the record args maps key to, whatever the key's position.
Lookup(args, key) ==
    IF \E i \in 1..Len(args) : args[i][1] = key
    THEN args[CHOOSE i \in 1..Len(args) : args[i][1] = key][2]
    ELSE Undefined

\* mockApi[name](...vals) (line 271): the string returned.
FixtureResult(name, vals) ==
    CASE name = "getNodeStatus" -> getNodeStatus(Arg(vals, 1))
      [] name = "getLatestVaultLogs" -> getLatestVaultLogs(Arg(vals, 1))
      [] name = "getSystemComplianceScore" -> getSystemComplianceScore
      [] name = "startDeployment" -> StartDeploymentResult

\* mockApi[name](...vals) (line 271): the effect on the modal's state.
FixtureEffect(m, name, vals) ==
    IF name = "startDeployment" THEN startDeployment(m, Arg(vals, 1), Arg(vals, 2)) ELSE m

\* Whether the loop body invokes a fixture for a call (line 270). The names the
\* model service sends here are the fixtures' and one name mockApi does not have;
\* names mockApi inherits from Object.prototype are not among them.
Dispatched(name) == name \in MockApiNames

\* DispatchOne with the result put in front of the batch instead of at its end.
DispatchOne_Prepends(st, funcCall) ==
    IF Dispatched(funcCall.name)
    THEN [m |-> FixtureEffect(st.m, funcCall.name, ObjectValues(funcCall.args)),
          functionResponses |->
              << [name |-> funcCall.name,
                  response |-> [result |-> FixtureResult(funcCall.name, ObjectValues(funcCall.args))]] >>
              \o st.functionResponses,
          invoked |-> Append(st.invoked, funcCall)]
    ELSE st

\* One iteration of the for loop (lines 268-277) on the loop's state st: the
\* modal's state, the functionResponses pushed so far and the invocations made.
DispatchOne(st, funcCall) ==
    IF Dispatched(funcCall.name)
    THEN [m |-> FixtureEffect(st.m, funcCall.name, ObjectValues(funcCall.args)),
          functionResponses |->
              Append(st.functionResponses,
                     [name |-> funcCall.name,
                      response |-> [result |-> FixtureResult(funcCall.name, ObjectValues(funcCall.args))]]),
          invoked |-> Append(st.invoked, funcCall)]
    ELSE st

RECURSIVE DispatchAll(_, _)
\* The for loop of lines 268-277.
DispatchAll(st, calls) ==
    IF calls = <<>> THEN st ELSE DispatchAll(DispatchOne(st, Head(calls)), Tail(calls))

-----------------------------------------------------------------------------
\* The inputs of the model: what the user types, what the model service answers
\* and what a failed send throws.

InputValues == { <<>>, <<" ">>, <<"h", "i">>, <<" ", "h", "i", " ">> }

Package1 == "2.0.0 G-Sync"
Package2 == "1.9.9"
Node2 == "node-2"

CallLists ==
    { << Call("getNodeStatus", << <<"nodeId", KnownNode>> >>),
         Call("getLatestVaultLogs", << <<"limit", 2>> >>) >>,
      << Call("startDeployment", << <<"packageId", Package1>>, <<"nodeId", KnownNode>> >>) >>,
      << Call("startDeployment", << <<"nodeId", Node2>>, <<"packageId", Package2>> >>) >>,
      << Call("restartNode", << <<"nodeId", KnownNode>> >>),
         Call("getNodeStatus", << <<"nodeId", Node2>> >>),
         Call("getSystemComplianceScore", <<>>) >>,
      << Call("getLatestVaultLogs", << <<"limit", -1>> >>),
         Call("getLatestVaultLogs", << <<"limit", 0>> >>),
         Call("getLatestVaultLogs", << <<"limit", 7>> >>) >> }

\* The text a response that requests function calls carries besides them.
CallText(cs) == IF cs[1].name = "restartNode" THEN "Checking." ELSE ""

\* Responses that request function calls.
CallResponses == { [functionCalls |-> cs, text |-> CallText(cs)] : cs \in CallLists }

\* Responses that request none: with text, with JSON text and without text.
FinalResponses == { [functionCalls |-> <<>>, text |-> t] : t \in {"Done.", "[1]", ""} }

Responses == CallResponses \cup FinalResponses

ErrorMessages == {"Failed to fetch"}

ApiKeyError == "ERROR: API_KEY is not configured. Please set it in the environment variables."
CancelText == "Deployment action was cancelled by the user."
\* The texts of lines 221, 228 and 233 start with an emoji, left out here.
SuccessText(packageId, nodeId) ==
    "Deployment of package '" \o packageId \o "' successfully initiated on node '" \o nodeId \o "'."

\* The messages handed to chat.sendMessage (lines 263 and 279-283).
UserTurn(userMessage) == [kind |-> "text", text |-> userMessage, parts |-> <<>>]
ResultTurn(functionResponses) ==
    [kind |-> "functionResponses", text |-> "",
     parts |-> [i \in 1..Len(functionResponses) |-> [functionResponse |-> functionResponses[i]]]]

-----------------------------------------------------------------------------
\* The modal and its overlay carry the class 'hidden' in the page as loaded: the
\* idle state of the confirmation state machine. The page's markup sets it.
ModalStartsHidden == TRUE

\* The state after the page's script is loaded and before main() runs.

Init ==
    /\ apiKey \in BOOLEAN
    /\ pc = "boot"
    /\ listeners = FALSE
    /\ chat = FALSE
    /\ actionToConfirm = None
    /\ modalHidden = ModalStartsHidden
    /\ overlayHidden = ModalStartsHidden
    /\ modalBody = ""
    /\ promptValue = <<>>
    /\ inputDisabled = FALSE
    /\ submitDisabled = FALSE
    /\ spinner = FALSE
    /\ chatHistory = <<>>
    /\ sent = <<>>
    /\ response = NoResponse
    /\ invoked = <<>>
    /\ clicks = 0

cycleVars == <<response, invoked>>
modalVars == <<actionToConfirm, modalHidden, overlayHidden, modalBody>>
formVars == <<promptValue, inputDisabled, submitDisabled, spinner>>

\* main without the return of line 207.
main_FallsThrough ==
    /\ chatHistory' = IF ~apiKey THEN appendMessage(chatHistory, ApiKeyError, "model-message")
                      ELSE chatHistory
    /\ listeners' = TRUE
    /\ chat' = TRUE

\* main (lines 201-300): without the credential one error message and nothing
\* else; with it the listeners and the chat session.
main ==
    IF ~apiKey
    THEN /\ chatHistory' = appendMessage(chatHistory, ApiKeyError, "model-message")
         /\ UNCHANGED <<listeners, chat>>
    ELSE /\ listeners' = TRUE
         /\ chat' = TRUE
         /\ UNCHANGED chatHistory

Main ==
    /\ pc = "boot"
    /\ main
    /\ pc' = "idle"
    /\ UNCHANGED <<apiKey, modalVars, formVars, sent, cycleVars, clicks>>

\* hideModal without line 214.
hideModal_KeepsAction ==
    /\ modalHidden' = TRUE
    /\ overlayHidden' = TRUE
    /\ UNCHANGED actionToConfirm

\* hideModal (lines 211-215).
hideModal ==
    /\ modalHidden' = TRUE
    /\ overlayHidden' = TRUE
    /\ actionToConfirm' = None

\* The confirm listener with hideModal called before the pending action is read.
confirmListener_HidesFirst ==
    /\ UNCHANGED chatHistory
    /\ hideModal

\* The confirm button's listener (lines 217-225).
confirmListener ==
    /\ chatHistory' =
          IF actionToConfirm # None /\ actionToConfirm.type = "DEPLOYMENT"
          THEN appendMessage(chatHistory,
                             SuccessText(actionToConfirm.packageId, actionToConfirm.nodeId),
                             "model-message")
          ELSE chatHistory
    /\ hideModal

\* The cancel button's listener (lines 227-230).
cancelListener ==
    /\ chatHistory' = appendMessage(chatHistory, CancelText, "model-message")
    /\ hideModal

\* The overlay's listener (lines 232-235).
overlayListener ==
    /\ chatHistory' = appendMessage(chatHistory, CancelText, "model-message")
    /\ hideModal

\* A click event on one of the three elements: its listener runs when main
\* registered it, and nothing runs otherwise.
Click(listener) ==
    /\ pc # "boot"
    /\ clicks < MaxClicks
    /\ clicks' = clicks + 1
    /\ IF listeners THEN listener
       ELSE UNCHANGED <<chatHistory, actionToConfirm, modalHidden, overlayHidden>>
    /\ UNCHANGED <<apiKey, pc, listeners, chat, modalBody, formVars, sent, cycleVars>>

ConfirmClick == Click(confirmListener)
CancelClick == Click(cancelListener)
OverlayClick == Click(overlayListener)

\* The finally block without line 296.
enableControls_InputOnly ==
    /\ inputDisabled' = FALSE
    /\ UNCHANGED submitDisabled

\* The finally block (lines 294-298).
enableControls ==
    /\ inputDisabled' = FALSE
    /\ submitDisabled' = FALSE

\* The submit listener up to its first await (lines 250-263), for the field's
\* value v.
submitListener(v) ==
    IF Trim(v) = <<>>
    THEN /\ promptValue' = v
         /\ UNCHANGED <<inputDisabled, submitDisabled, spinner, chatHistory, sent, pc>>
    ELSE /\ promptValue' = <<>>
         /\ inputDisabled' = TRUE
         /\ submitDisabled' = TRUE
         /\ chatHistory' = appendMessage(chatHistory, Str(Trim(v)), "user-message")
         /\ spinner' = TRUE
         /\ sent' = Append(sent, UserTurn(Str(Trim(v))))
         /\ pc' = "awaiting"

\* A submit event with the value v typed into the field. The browser submits the
\* form only through its enabled controls; without the listener the event reaches
\* no code of the page.
Submit(v) ==
    /\ pc = "idle"
    /\ ~inputDisabled
    /\ Len(sent) < MaxSends
    /\ IF listeners THEN submitListener(v)
       ELSE /\ promptValue' = v
            /\ UNCHANGED <<inputDisabled, submitDisabled, spinner, chatHistory, sent, pc>>
    /\ UNCHANGED <<apiKey, listeners, chat, modalVars, cycleVars, clicks>>

\* dispatchCalls with the text of the response rendered before the batch is sent.
dispatchCalls_RendersText(r) ==
    LET st == DispatchAll([m |-> [action |-> actionToConfirm, body |-> modalBody,
                                  modalHidden |-> modalHidden, overlayHidden |-> overlayHidden],
                           functionResponses |-> <<>>, invoked |-> <<>>],
                          r.functionCalls)
    IN  /\ actionToConfirm' = st.m.action
        /\ modalBody' = st.m.body
        /\ modalHidden' = st.m.modalHidden
        /\ overlayHidden' = st.m.overlayHidden
        /\ invoked' = st.invoked
        /\ sent' = Append(sent, ResultTurn(st.functionResponses))
        /\ response' = r
        /\ chatHistory' = IF r.text # "" THEN appendMessage(chatHistory, r.text, "model-message")
                          ELSE chatHistory
        /\ UNCHANGED <<pc, formVars>>

\* The loop body (lines 266-283) for a response r that requests function calls:
\* the fixtures run, then the batch is sent and the handler awaits again.
dispatchCalls(r) ==
    LET st == DispatchAll([m |-> [action |-> actionToConfirm, body |-> modalBody,
                                  modalHidden |-> modalHidden, overlayHidden |-> overlayHidden],
                           functionResponses |-> <<>>, invoked |-> <<>>],
                          r.functionCalls)
    IN  /\ actionToConfirm' = st.m.action
        /\ modalBody' = st.m.body
        /\ modalHidden' = st.m.modalHidden
        /\ overlayHidden' = st.m.overlayHidden
        /\ invoked' = st.invoked
        /\ sent' = Append(sent, ResultTurn(st.functionResponses))
        /\ response' = r
        /\ UNCHANGED <<pc, chatHistory, formVars>>

\* Lines 286-289 and the finally block, for a response r that requests none.
finishCycle(r) ==
    /\ spinner' = FALSE
    /\ chatHistory' = IF r.text # "" THEN appendMessage(chatHistory, r.text, "model-message")
                      ELSE chatHistory
    /\ enableControls
    /\ pc' = "idle"
    /\ response' = NoResponse
    /\ invoked' = <<>>
    /\ UNCHANGED <<promptValue, sent, modalVars>>

\* The awaited send returns r (lines 263/279 to the next await or the end).
Receive(r) ==
    /\ pc = "awaiting"
    /\ Len(r.functionCalls) > 0 => Len(sent) < MaxSends
    /\ IF Len(r.functionCalls) > 0 THEN dispatchCalls(r) ELSE finishCycle(r)
    /\ UNCHANGED <<apiKey, listeners, chat, clicks>>

\* The catch block sending the failed message once more instead of giving up.
catchError_Retries(e) ==
    /\ chatHistory' = appendMessage(chatHistory, "Error: " \o e, "model-message")
    /\ sent' = Append(sent, sent[Len(sent)])
    /\ UNCHANGED <<pc, response, invoked, formVars, modalVars>>

\* The catch block (lines 290-293) and the finally block, for an error message e.
catchError(e) ==
    /\ spinner' = FALSE
    /\ chatHistory' = appendMessage(chatHistory, "Error: " \o e, "model-message")
    /\ enableControls
    /\ pc' = "idle"
    /\ response' = NoResponse
    /\ invoked' = <<>>
    /\ UNCHANGED <<promptValue, sent, modalVars>>

\* The awaited send throws an error whose message is e.
Throw(e) ==
    /\ pc = "awaiting"
    /\ catchError(e)
    /\ UNCHANGED <<apiKey, listeners, chat, clicks>>

Next ==
    \/ Main
    \/ \E v \in InputValues : Submit(v)
    \/ \E r \in Responses : Receive(r)
    \/ \E e \in ErrorMessages : Throw(e)
    \/ ConfirmClick
    \/ CancelClick
    \/ OverlayClick

Spec == Init /\ [][Next]_vars

\* The send settles: the assumption that every send call eventually returns or
\* throws. The model service stops asking for function calls once MaxSends
\* messages were sent.
SendSettles == (\E r \in Responses : Receive(r)) \/ (\E e \in ErrorMessages : Throw(e))
FairSpec == Spec /\ WF_vars(SendSettles)

-----------------------------------------------------------------------------
\* Definitions the properties share.

\* The last message handed to chat.sendMessage.
LastSent == sent[Len(sent)]

\* The handler is suspended on the send of a function-result batch: `response`
\* is the response that batch answers.
AwaitingBatch == pc = "awaiting" /\ response # NoResponse

\* What the fixture named by a call returns for the call's arguments, taken by
\* parameter name.
ExpectedResult(funcCall) ==
    CASE funcCall.name = "getNodeStatus" -> getNodeStatus(Lookup(funcCall.args, "nodeId"))
      [] funcCall.name = "getLatestVaultLogs" -> getLatestVaultLogs(Lookup(funcCall.args, "limit"))
      [] funcCall.name = "getSystemComplianceScore" -> getSystemComplianceScore
      [] funcCall.name = "startDeployment" -> StartDeploymentResult
      [] OTHER -> Undefined

\* A batch answers the calls cs one entry per call, in order.
Answers(batch, cs) ==
    /\ batch.kind = "functionResponses"
    /\ Len(batch.parts) = Len(cs)
    /\ \A i \in 1..Len(cs) :
          /\ i <= Len(batch.parts)
          /\ batch.parts[i].functionResponse.name = cs[i].name
          /\ batch.parts[i].functionResponse.response.result = ExpectedResult(cs[i])

IsFixtureCall(funcCall) == funcCall.name \in MockApiNames

\* C1 as stated: after a response that requests n >= 1 function calls, the next
\* message sent is one batch of exactly n entries, the i-th naming the i-th call
\* and carrying its fixture's result, every requested call having been invoked
\* exactly once before the batch was sent.
C1_EveryCallAnswered ==
    AwaitingBatch =>
        /\ Answers(LastSent, response.functionCalls)
        /\ invoked = response.functionCalls

\* C1 amended: the batch holds one entry per requested call whose name is a key of
\* mockApi, in the order of the calls, and exactly those calls were invoked, once
\* each and in that order; a call of another name is not invoked and has no entry.
C1_FixtureCallsAnswered ==
    AwaitingBatch =>
        /\ Answers(LastSent, SelectSeq(response.functionCalls, IsFixtureCall))
        /\ invoked = SelectSeq(response.functionCalls, IsFixtureCall)

\* A batch of two entries was sent for a response of three calls, one of them
\* naming no fixture.
C1_Witness ==
    /\ AwaitingBatch
    /\ Len(response.functionCalls) = 3
    /\ Len(LastSent.parts) = 2
    /\ \E i \in 1..3 : ~IsFixtureCall(response.functionCalls[i])

\* C2 as stated: a batch is sent after a response that requests function calls
\* and the cycle goes on with nothing rendered; after a response that requests
\* none nothing is sent, the cycle stops and the response's text is rendered as
\* exactly one model message.
C2_FinalTextRendered ==
    [][\A r \in Responses : Receive(r) =>
          IF r.functionCalls # <<>>
          THEN /\ Len(sent') = Len(sent) + 1
               /\ sent'[Len(sent')].kind = "functionResponses"
               /\ SubSeq(sent', 1, Len(sent)) = sent
               /\ pc' = "awaiting"
               /\ chatHistory' = chatHistory
          ELSE /\ sent' = sent
               /\ pc' = "idle"
               /\ chatHistory' = Append(chatHistory, Rendered(r.text, "model-message"))]_vars

\* C2 amended: as stated, except that the final response's text is rendered as
\* exactly one model message when it is not empty, and nothing is rendered when
\* the final response has no text.
C2_FinalTextRenderedIfAny ==
    [][\A r \in Responses : Receive(r) =>
          IF r.functionCalls # <<>>
          THEN /\ Len(sent') = Len(sent) + 1
               /\ sent'[Len(sent')].kind = "functionResponses"
               /\ SubSeq(sent', 1, Len(sent)) = sent
               /\ pc' = "awaiting"
               /\ chatHistory' = chatHistory
          ELSE /\ sent' = sent
               /\ pc' = "idle"
               /\ chatHistory' = IF r.text # ""
                                 THEN Append(chatHistory, Rendered(r.text, "model-message"))
                                 ELSE chatHistory]_vars

\* A cycle ended after one batch and the user's message is all that was rendered:
\* the final response had no text.
C2_Witness ==
    /\ pc = "idle"
    /\ listeners
    /\ clicks = 0
    /\ Len(sent) = 2
    /\ sent[2].kind = "functionResponses"
    /\ Len(chatHistory) = 1
    /\ chatHistory[1].cls = "user-message"

\* C3: when a send throws, nothing more is sent, the cycle is over, and the one
\* message rendered is the error message carrying the exception's message; and a
\* message is sent only by a submission or by the loop answering a response.
C3_ThrowAbortsCycle ==
    [][/\ \A e \in ErrorMessages : Throw(e) =>
             /\ sent' = sent
             /\ pc' = "idle"
             /\ chatHistory' = Append(chatHistory, Rendered("Error: " \o e, "model-message"))
       /\ sent' # sent =>
             \/ \E v \in InputValues : Submit(v)
             \/ \E r \in CallResponses : Receive(r)]_vars

\* A function-result send threw: two messages were sent and the last message
\* rendered is the error.
C3_Witness ==
    /\ pc = "idle"
    /\ Len(sent) = 2
    /\ sent[2].kind = "functionResponses"
    /\ Len(chatHistory) >= 2
    /\ chatHistory[Len(chatHistory)].content = "Error: Failed to fetch"

ControlsEnabled == ~inputDisabled /\ ~submitDisabled

\* C4: an accepted submission disables the input field and the submit button;
\* a cycle that ends, by a final reply or by an error, leaves both enabled and
\* the spinner removed; and when every send settles, a cycle under way is
\* followed by a state with both controls enabled.
C4_ControlsReenabled ==
    /\ [][\A v \in InputValues : (Submit(v) /\ listeners /\ Trim(v) # <<>>) =>
             (inputDisabled' /\ submitDisabled' /\ pc' = "awaiting")]_vars
    /\ [][(pc = "awaiting" /\ pc' # "awaiting") => (ControlsEnabled' /\ ~spinner')]_vars
    /\ [](pc = "awaiting" => (inputDisabled /\ submitDisabled))
    /\ (pc = "awaiting" ~> ControlsEnabled)

\* A cycle ended by an error: the controls are enabled and the spinner is gone.
C4_Witness ==
    /\ pc = "idle"
    /\ Len(sent) >= 1
    /\ chatHistory[Len(chatHistory)].content = "Error: Failed to fetch"
    /\ ControlsEnabled
    /\ ~spinner

\* C5: with a deployment of package p to node n pending, a click on confirm
\* clears the pending action and renders exactly one message, the success message
\* naming p and n; a click on cancel or on the overlay clears it and renders
\* exactly one message, the cancellation message.
C5_ModalOutcomes ==
    [][(listeners /\ actionToConfirm # None) =>
          /\ ConfirmClick =>
                /\ actionToConfirm' = None
                /\ chatHistory' =
                      Append(chatHistory,
                             Rendered(SuccessText(actionToConfirm.packageId, actionToConfirm.nodeId),
                                      "model-message"))
          /\ (CancelClick \/ OverlayClick) =>
                /\ actionToConfirm' = None
                /\ chatHistory' = Append(chatHistory, Rendered(CancelText, "model-message"))]_vars

\* A pending deployment was confirmed: its success message is the last one.
C5_Witness ==
    /\ actionToConfirm = None
    /\ clicks = 1
    /\ Len(chatHistory) >= 2
    /\ chatHistory[Len(chatHistory)].content = SuccessText(Package1, KnownNode)

\* Whether a response's calls invoke startDeployment.
StagesDeployment(r) ==
    \E i \in 1..Len(r.functionCalls) : r.functionCalls[i].name = "startDeployment"

\* C6 as stated: the pending action changes only from none to a staged
\* deployment, when startDeployment is invoked, and from a staged deployment to
\* none, when the user confirms, cancels or clicks the overlay; a staged
\* deployment is never replaced by another one.
C6_TwoTransitions ==
    [][actionToConfirm' # actionToConfirm =>
          \/ /\ actionToConfirm = None
             /\ \E r \in CallResponses : StagesDeployment(r) /\ Receive(r)
          \/ /\ actionToConfirm # None
             /\ actionToConfirm' = None
             /\ (ConfirmClick \/ CancelClick \/ OverlayClick)]_vars

\* C7: without the credential exactly one error message is rendered and nothing
\* else ever happens: no chat session, no listener, nothing sent, no further
\* message, no pending action, and the controls stay enabled.
C7_InertWithoutKey ==
    (pc # "boot" /\ ~apiKey) =>
        /\ chatHistory = << Rendered(ApiKeyError, "model-message") >>
        /\ ~chat
        /\ ~listeners
        /\ sent = <<>>
        /\ actionToConfirm = None
        /\ modalHidden /\ overlayHidden
        /\ ControlsEnabled
        /\ ~spinner
        /\ pc = "idle"

\* Without the credential, a click and a submit of "hi" have happened.
C7_Witness ==
    /\ ~apiKey
    /\ pc = "idle"
    /\ clicks >= 1
    /\ promptValue = <<"h", "i">>

\* The first k entries of the log list, each as one bulleted line.
BulletedPrefix(k) == [j \in 1..k |-> "- [" \o logs[j].level \o "] " \o logs[j].message]

\* C8 as stated, a negative limit read as allowing no entry: the result of
\* getLatestVaultLogs for limit N lists at most N entries, a prefix of the five
\* log entries, each as one bulleted line.
C8_AtMostLimitEntries ==
    AwaitingBatch =>
        \A i \in 1..Len(invoked) :
            invoked[i].name = "getLatestVaultLogs" =>
                LET N == Lookup(invoked[i].args, "limit")
                IN  \E k \in 0..Min(Max(N, 0), Len(logs)) :
                        LastSent.parts[i].functionResponse.response.result =
                            "Last " \o ToString(N) \o " logs from the Vault:\n"
                            \o Join(BulletedPrefix(k), "\n")

\* C9: the modal and its overlay are visible exactly when a pending action is
\* staged.
C9_ModalShownIffPending ==
    /\ modalHidden = overlayHidden
    /\ modalHidden <=> actionToConfirm = None

\* While the handler is suspended on the batch that answers a startDeployment
\* call, a click has closed the modal again.
C9_Witness ==
    /\ AwaitingBatch
    /\ invoked # <<>>
    /\ invoked[1].name = "startDeployment"
    /\ clicks = 1
    /\ modalHidden
    /\ actionToConfirm = None

\* The last startDeployment call of a response that has one.
LastStart(r) ==
    r.functionCalls[CHOOSE i \in 1..Len(r.functionCalls) :
                        /\ r.functionCalls[i].name = "startDeployment"
                        /\ \A j \in (i + 1)..Len(r.functionCalls) :
                              r.functionCalls[j].name # "startDeployment"]

\* C10 as stated: a startDeployment call whose argument record maps packageId to
\* p and nodeId to n stages the pending action with packageId p and nodeId n,
\* whatever the order of the record's keys.
C10_StagedByKey ==
    [][\A r \in CallResponses : (StagesDeployment(r) /\ Receive(r)) =>
          actionToConfirm' = Staged(Lookup(LastStart(r).args, "packageId"),
                                    Lookup(LastStart(r).args, "nodeId"))]_vars

====
